---- MODULE Spec2Model ----
(***************************************************************************)
(* Model of admin/admin.py: the Streamlit PDF ingestion script.  Every     *)
(* script run selects an embedding model, takes an uploaded PDF, loads and *)
(* splits it, builds a FAISS index, saves it under /tmp/ and uploads the   *)
(* two files to fixed S3 keys.  Script runs of different browser sessions  *)
(* interleave at the external calls.                                       *)
(***************************************************************************)
EXTENDS Integers, Sequences, FiniteSets, TLC

\* ---- bounds of the model ----
MaxRequests == 2
MaxPages == 1
MaxFrags == 2

\* Concurrent browser sessions, each running the script top to bottom.
Sessions == {"s1", "s2"}

\* ---- names taken from the script ----
MODEL_IDS == <<"amazon.titan-embed-text-v1", "cohere.embed-english-v3">>

folder_path == "/tmp/"

file_name_shared(request_id) == "index.bin"

file_name(request_id) == ToString(request_id) \o ".bin"

saved_file_name(request_id) == ToString(request_id) \o ".pdf"

faiss_file(request_id) == folder_path \o file_name(request_id) \o ".faiss"

pkl_file(request_id) == folder_path \o file_name(request_id) \o ".pkl"

faiss_key_per_request(request_id) == ToString(request_id) \o ".faiss"

faiss_key(request_id) == "my_faiss.faiss"

pkl_key(request_id) == "my_faiss.pkl"

\* Stages of one run of main, in execution order.
Stages ==
  <<"load", "split", "preview", "build", "save_faiss", "save_pkl",
    "upload_faiss", "upload_pkl">>

StageSet == {Stages[i] : i \in 1..Len(Stages)}

StageIndex(stage) == CHOOSE i \in 1..Len(Stages) : Stages[i] = stage

\* Stages run directly by main (failure lands in main's except clause);
\* the others run inside create_vector_store's try block.
MainStages == {"load", "split", "preview"}

Terminal == {"ok", "failed", "error", "noop"}

StagesBefore(stage) == {Stages[i] : i \in 1..(StageIndex(stage) - 1)}

\* Overwrite-by-key write into a key/value mapping (file system, bucket).
Put(m, k, v) == [n \in DOMAIN m \cup {k} |-> IF n = k THEN v ELSE m[n]]

VARIABLES
  pc,                 \* position of each session's script run
  bedrock_embeddings, \* module global of each run: "unset", a model id, "None"
  attempts,           \* BedrockEmbeddings constructor calls of the run, in order
  request_id,         \* request id of the run (0: none yet)
  pages,              \* len(pages) of the run
  splitted_docs,      \* len(splitted_docs) of the run
  done,               \* stages of the run that completed without error
  issued,             \* number of uuids generated so far
  outcome,            \* what main reported for each request ("none": nothing yet)
  fs,                 \* local files: name -> request whose data it holds
  s3                  \* bucket BUCKET_NAME: key -> request whose data it holds

vars ==
  <<pc, bedrock_embeddings, attempts, request_id, pages, splitted_docs,
    done, issued, outcome, fs, s3>>

\* Where a run continues after a stage: the next stage on success; on an
\* exception main's except (st.error) or create_vector_store's return False.
AfterStage_swallow(stage, ok) ==
  IF stage = "upload_pkl" THEN "ok" ELSE Stages[StageIndex(stage) + 1]

AfterStage(stage, ok) ==
  IF ok
    THEN IF stage = "upload_pkl" THEN "ok" ELSE Stages[StageIndex(stage) + 1]
    ELSE IF stage \in MainStages THEN "error" ELSE "failed"

\* Bookkeeping shared by all stage actions of session s.
Advance(s, stage, ok) ==
  /\ pc' = [pc EXCEPT ![s] = AfterStage(stage, ok)]
  /\ done' = [done EXCEPT ![s] = IF ok THEN @ \cup {stage} ELSE @]
  /\ outcome' = IF AfterStage(stage, ok) \in Terminal
                  THEN [outcome EXCEPT ![request_id[s]] = AfterStage(stage, ok)]
                  ELSE outcome

Init ==
  /\ pc = [s \in Sessions |-> "init_titan"]
  /\ bedrock_embeddings = [s \in Sessions |-> "unset"]
  /\ attempts = [s \in Sessions |-> <<>>]
  /\ request_id = [s \in Sessions |-> 0]
  /\ pages = [s \in Sessions |-> 0]
  /\ splitted_docs = [s \in Sessions |-> 0]
  /\ done = [s \in Sessions |-> {}]
  /\ issued = 0
  /\ outcome = [i \in 1..MaxRequests |-> "none"]
  /\ fs = <<>>
  /\ s3 = <<>>

\* ---- embedding model selection (module level, lines 28-44) ----

\* Whether the fallback model is constructed after the first attempt.
TryFallback_always(ok) == TRUE

TryFallback(ok) == ~ok

InitTitan(s) ==
  /\ pc[s] = "init_titan"
  /\ \E ok \in BOOLEAN :
       /\ attempts' = [attempts EXCEPT ![s] = Append(@, [model |-> MODEL_IDS[1], ok |-> ok])]
       /\ bedrock_embeddings' =
            [bedrock_embeddings EXCEPT ![s] = IF ok THEN MODEL_IDS[1] ELSE @]
       /\ pc' = [pc EXCEPT ![s] = IF TryFallback(ok) THEN "init_cohere" ELSE "main"]
  /\ UNCHANGED <<request_id, pages, splitted_docs, done, issued, outcome, fs, s3>>

InitCohere(s) ==
  /\ pc[s] = "init_cohere"
  /\ \E ok \in BOOLEAN :
       /\ attempts' = [attempts EXCEPT ![s] = Append(@, [model |-> MODEL_IDS[2], ok |-> ok])]
       /\ bedrock_embeddings' =
            [bedrock_embeddings EXCEPT ![s] = IF ok THEN MODEL_IDS[2] ELSE "None"]
       /\ pc' = [pc EXCEPT ![s] = "main"]
  /\ UNCHANGED <<request_id, pages, splitted_docs, done, issued, outcome, fs, s3>>

\* ---- main ----

\* uploaded_file is None: the run does nothing.
NoUpload(s) ==
  /\ pc[s] = "main"
  /\ pc' = [pc EXCEPT ![s] = "noop"]
  /\ UNCHANGED <<bedrock_embeddings, attempts, request_id, pages,
                 splitted_docs, done, issued, outcome, fs, s3>>

get_unique_uuid == issued + 1

\* A file was uploaded: generate the request id and save the PDF.
Start(s) ==
  /\ pc[s] = "main"
  /\ issued < MaxRequests
  /\ issued' = get_unique_uuid
  /\ request_id' = [request_id EXCEPT ![s] = get_unique_uuid]
  /\ fs' = Put(fs, saved_file_name(get_unique_uuid), get_unique_uuid)
  /\ pc' = [pc EXCEPT ![s] = "load"]
  /\ UNCHANGED <<bedrock_embeddings, attempts, pages, splitted_docs, done, outcome, s3>>

\* loader.load_and_split(): any number of pages, or an exception.
Load(s) ==
  /\ pc[s] = "load"
  /\ \E ok \in BOOLEAN : \E n \in 0..MaxPages :
       /\ ~ok => n = 0
       /\ pages' = [pages EXCEPT ![s] = n]
       /\ Advance(s, "load", ok)
  /\ UNCHANGED <<bedrock_embeddings, attempts, request_id, splitted_docs,
                 issued, fs, s3>>

\* split_text(pages, 1000, 200): no pages give no fragments; a page gives
\* any number of fragments (an empty page gives none).
split_text(s) ==
  /\ pc[s] = "split"
  /\ \E ok \in BOOLEAN : \E n \in 0..MaxFrags :
       /\ (~ok \/ pages[s] = 0) => n = 0
       /\ splitted_docs' = [splitted_docs EXCEPT ![s] = n]
       /\ Advance(s, "split", ok)
  /\ UNCHANGED <<bedrock_embeddings, attempts, request_id, pages, issued, fs, s3>>

\* st.write(splitted_docs[0]); st.write(splitted_docs[1]) raise IndexError
\* unless both elements exist.
PreviewOk_any(n) == TRUE

PreviewOk(n) == n >= 2

Preview(s) ==
  /\ pc[s] = "preview"
  /\ Advance(s, "preview", PreviewOk(splitted_docs[s]))
  /\ UNCHANGED <<bedrock_embeddings, attempts, request_id, pages,
                 splitted_docs, issued, fs, s3>>

\* ---- create_vector_store ----

EmbeddingsMissing_ignored(e) == FALSE

EmbeddingsMissing(e) == e = "None"

\* The None guard, then FAISS.from_documents (embedding calls may raise).
BuildIndex(s) ==
  /\ pc[s] = "build"
  /\ \E ok \in BOOLEAN :
       /\ EmbeddingsMissing(bedrock_embeddings[s]) => ~ok
       /\ Advance(s, "build", ok)
  /\ UNCHANGED <<bedrock_embeddings, attempts, request_id, pages,
                 splitted_docs, issued, fs, s3>>

\* save_local writes <index_name>.faiss and then <index_name>.pkl.
SaveFaiss(s) ==
  /\ pc[s] = "save_faiss"
  /\ \E ok \in BOOLEAN :
       /\ fs' = IF ok THEN Put(fs, faiss_file(request_id[s]), request_id[s]) ELSE fs
       /\ Advance(s, "save_faiss", ok)
  /\ UNCHANGED <<bedrock_embeddings, attempts, request_id, pages,
                 splitted_docs, issued, s3>>

SavePkl(s) ==
  /\ pc[s] = "save_pkl"
  /\ \E ok \in BOOLEAN :
       /\ fs' = IF ok THEN Put(fs, pkl_file(request_id[s]), request_id[s]) ELSE fs
       /\ Advance(s, "save_pkl", ok)
  /\ UNCHANGED <<bedrock_embeddings, attempts, request_id, pages,
                 splitted_docs, issued, s3>>

\* s3_client.upload_file: copies the named local file to the key, or raises.
UploadFaiss(s) ==
  /\ pc[s] = "upload_faiss"
  /\ \E ok \in BOOLEAN :
       /\ ok => faiss_file(request_id[s]) \in DOMAIN fs
       /\ s3' = IF ok
                  THEN Put(s3, faiss_key(request_id[s]), fs[faiss_file(request_id[s])])
                  ELSE s3
       /\ Advance(s, "upload_faiss", ok)
  /\ UNCHANGED <<bedrock_embeddings, attempts, request_id, pages,
                 splitted_docs, issued, fs>>

UploadPkl(s) ==
  /\ pc[s] = "upload_pkl"
  /\ \E ok \in BOOLEAN :
       /\ ok => pkl_file(request_id[s]) \in DOMAIN fs
       /\ s3' = IF ok
                  THEN Put(s3, pkl_key(request_id[s]), fs[pkl_file(request_id[s])])
                  ELSE s3
       /\ Advance(s, "upload_pkl", ok)
  /\ UNCHANGED <<bedrock_embeddings, attempts, request_id, pages,
                 splitted_docs, issued, fs>>

\* Streamlit reruns the script from the top on the session's next interaction.
Rerun(s) ==
  /\ pc[s] \in Terminal
  /\ pc' = [pc EXCEPT ![s] = "init_titan"]
  /\ bedrock_embeddings' = [bedrock_embeddings EXCEPT ![s] = "unset"]
  /\ attempts' = [attempts EXCEPT ![s] = <<>>]
  /\ request_id' = [request_id EXCEPT ![s] = 0]
  /\ pages' = [pages EXCEPT ![s] = 0]
  /\ splitted_docs' = [splitted_docs EXCEPT ![s] = 0]
  /\ done' = [done EXCEPT ![s] = {}]
  /\ UNCHANGED <<issued, outcome, fs, s3>>

Next ==
  \E s \in Sessions :
    \/ InitTitan(s)
    \/ InitCohere(s)
    \/ NoUpload(s)
    \/ Start(s)
    \/ Load(s)
    \/ split_text(s)
    \/ Preview(s)
    \/ BuildIndex(s)
    \/ SaveFaiss(s)
    \/ SavePkl(s)
    \/ UploadFaiss(s)
    \/ UploadPkl(s)
    \/ Rerun(s)

Spec == Init /\ [][Next]_vars

\* A request is in flight from the generation of its id to its outcome.
InFlight(s) == pc[s] \in StageSet

\* Non-overlapping ingestions: a request starts only while no other is in flight.
NextSeq ==
  \E s \in Sessions :
    \/ InitTitan(s)
    \/ InitCohere(s)
    \/ NoUpload(s)
    \/ Start(s) /\ \A t \in Sessions \ {s} : ~InFlight(t)
    \/ Load(s)
    \/ split_text(s)
    \/ Preview(s)
    \/ BuildIndex(s)
    \/ SaveFaiss(s)
    \/ SavePkl(s)
    \/ UploadFaiss(s)
    \/ UploadPkl(s)
    \/ Rerun(s)

SpecSeq == Init /\ [][NextSeq]_vars

\* ---- observations used by the properties ----

Failed(s) == pc[s] \in {"error", "failed"}

CvsStages == StageSet \ MainStages

\* The request's staged index files and bucket objects.
Staged(id) == {faiss_file(id), pkl_file(id)} \cap DOMAIN fs

Uploaded(id) == {k \in DOMAIN s3 : s3[k] = id}

PublicationKeys == {"my_faiss.faiss", "my_faiss.pkl"}

\* Availability check of the artifact by a reader of the bucket: both
\* payloads exist at the publication keys.
Available == PublicationKeys \subseteq DOMAIN s3

Finished == {i \in 1..issued : outcome[i] # "none"}

Latest(S) == CHOOSE i \in S : \A j \in S : j <= i

FirstOk(a) == CHOOSE i \in 1..Len(a) : a[i].ok /\ \A j \in 1..(i - 1) : ~a[j].ok

\* C1: a request that ends in failure leaves no artifact at the publication
\* keys that holds its index payload and is reported complete by the
\* availability check (failure of the .pkl upload after the .faiss upload).
C1_PublishAtomic ==
  \A s \in Sessions :
    pc[s] = "failed" =>
      ~(Available /\ s3["my_faiss.faiss"] = request_id[s])

\* C2: a run whose bedrock_embeddings is None never reports success, never
\* completes the index build, a staging write or an upload, and leaves no
\* staged file and no bucket object of its request.
C2_NoEmbeddingNoArtifact ==
  \A s \in Sessions :
    bedrock_embeddings[s] = "None" =>
      /\ pc[s] # "ok"
      /\ pc[s] \notin CvsStages \ {"build"}
      /\ done[s] \cap CvsStages = {}
      /\ request_id[s] # 0 =>
           Staged(request_id[s]) = {} /\ Uploaded(request_id[s]) = {}

C2_Witness ==
  \E s \in Sessions :
    /\ bedrock_embeddings[s] = "None"
    /\ pc[s] = "failed"
    /\ done[s] = MainStages

\* State part of C3 (fail fast): a run is at a stage only after all earlier stages
\* completed; a run that ended with an error completed exactly the stages
\* before the failing one; success is reported exactly when all stages
\* completed; and once a run has ended with an error it executes nothing more.
C3_FailFastState ==
  \A s \in Sessions :
    /\ pc[s] \in StageSet => done[s] = StagesBefore(pc[s])
    /\ pc[s] = "ok" <=> done[s] = StageSet
    /\ pc[s] = "error" => \E st \in MainStages : done[s] = StagesBefore(st)
    /\ pc[s] = "failed" => \E st \in CvsStages : done[s] = StagesBefore(st)
    /\ request_id[s] # 0 =>
         /\ Failed(s) <=> outcome[request_id[s]] \in {"error", "failed"}
         /\ pc[s] = "ok" <=> outcome[request_id[s]] = "ok"

\* C3 (complete statement): the state condition above holds always, a run
\* that ended with an error takes no further step of its request, and an
\* outcome once reported for a request never changes.
C3_FailFast ==
  /\ []C3_FailFastState
  /\ [][\A s \in Sessions :
          (Failed(s) /\ request_id'[s] = request_id[s]) =>
            (pc'[s] = pc[s] /\ done'[s] = done[s])]_vars
  /\ [][\A i \in 1..MaxRequests :
          outcome[i] # "none" => outcome'[i] = outcome[i]]_vars

C3_Witness ==
  \E s \in Sessions :
    /\ pc[s] = "failed"
    /\ done[s] = StagesBefore("upload_pkl")
    /\ outcome[request_id[s]] = "failed"

\* C4: a run whose loader returned zero pages and whose chunker returned
\* (zero fragments) without error ends without error, with the (empty)
\* artifact pair written.
C4_EmptyDocumentSucceeds ==
  \A s \in Sessions :
    ({"load", "split"} \subseteq done[s] /\ pages[s] = 0 /\ pc[s] \in Terminal) =>
      (pc[s] = "ok" /\ "upload_pkl" \in done[s])

\* C5: once two concurrently publishing requests have both finished
\* successfully, the index payload and the sidecar at the publication keys
\* belong to the same request.
C5_LastWriterWinsPair ==
  (\A s \in Sessions : pc[s] = "ok") =>
    (Available /\ s3["my_faiss.faiss"] = s3["my_faiss.pkl"])

\* C6: the bucket never holds a key other than the two fixed ones, and after
\* a sequence of non-overlapping ingestions that all succeeded it holds
\* exactly the pair of the most recent one.
C6_SingleArtifact ==
  /\ DOMAIN s3 \subseteq PublicationKeys
  /\ ( /\ \A s \in Sessions : ~InFlight(s)
       /\ Finished # {}
       /\ \A i \in Finished : outcome[i] = "ok" ) =>
       ( /\ Available
         /\ \A k \in DOMAIN s3 : s3[k] = Latest(Finished) )

C6_Witness ==
  /\ \A s \in Sessions : ~InFlight(s)
  /\ Cardinality(Finished) >= 2
  /\ \A i \in Finished : outcome[i] = "ok"
  /\ s3["my_faiss.faiss"] = Latest(Finished)

\* C7: every staged index file holds the data of the request it is named
\* after, and a request that has reached an upload step (or the second
\* staging write) finds under its own names the files it wrote itself.
C7_StagingIsolated ==
  /\ \A i \in 1..MaxRequests :
       /\ faiss_file(i) \in DOMAIN fs => fs[faiss_file(i)] = i
       /\ pkl_file(i) \in DOMAIN fs => fs[pkl_file(i)] = i
  /\ \A s \in Sessions :
       /\ pc[s] \in {"save_pkl", "upload_faiss", "upload_pkl"} =>
            faiss_file(request_id[s]) \in DOMAIN fs
       /\ pc[s] \in {"upload_faiss", "upload_pkl"} =>
            pkl_file(request_id[s]) \in DOMAIN fs
  /\ \A s, t \in Sessions :
       (s # t /\ request_id[s] # 0 /\ request_id[t] # 0) =>
         /\ request_id[s] # request_id[t]
         /\ {faiss_file(request_id[s]), pkl_file(request_id[s])}
              \cap {faiss_file(request_id[t]), pkl_file(request_id[t])} = {}

C7_Witness ==
  \E s, t \in Sessions :
    /\ s # t
    /\ pc[s] = "upload_faiss"
    /\ pc[t] = "save_pkl"
    /\ request_id[s] > request_id[t]

\* C8: the model identifiers are tried in the fixed order, a later one only
\* after every earlier one failed; once selection is over the embedder is
\* the first model that initialized, and it is None exactly when all failed.
C8_EmbeddingSelection ==
  \A s \in Sessions :
    LET a == attempts[s] IN
      /\ Len(a) <= Len(MODEL_IDS)
      /\ \A i \in 1..Len(a) :
           /\ a[i].model = MODEL_IDS[i]
           /\ \A j \in 1..(i - 1) : ~a[j].ok
      /\ pc[s] \notin {"init_titan", "init_cohere"} =>
           /\ Len(a) >= 1
           /\ (\E i \in 1..Len(a) : a[i].ok) =>
                bedrock_embeddings[s] = a[FirstOk(a)].model
           /\ bedrock_embeddings[s] = "None" <=>
                (Len(a) = Len(MODEL_IDS) /\ \A i \in 1..Len(a) : ~a[i].ok)
           /\ bedrock_embeddings[s] # "unset"

C8_Witness ==
  \E s, t \in Sessions :
    /\ bedrock_embeddings[s] = MODEL_IDS[2]
    /\ bedrock_embeddings[t] = "None"
    /\ pc[s] = "main"

\* C10: create_vector_store is entered only with at least two fragments; a
\* run whose chunking produced fewer ends with the error outcome at the
\* preview step and has nothing built, staged or uploaded.
C10_PreviewGate ==
  \A s \in Sessions :
    /\ (pc[s] \in CvsStages \cup {"ok", "failed"}) => splitted_docs[s] >= 2
    /\ ("split" \in done[s] /\ splitted_docs[s] < 2 /\ pc[s] # "preview") =>
         /\ pc[s] = "error"
         /\ outcome[request_id[s]] = "error"
         /\ done[s] = {"load", "split"}
         /\ Staged(request_id[s]) = {}
         /\ Uploaded(request_id[s]) = {}

C10_Witness ==
  \E s \in Sessions :
    /\ pc[s] = "error"
    /\ "split" \in done[s]
    /\ splitted_docs[s] = 1

TypeOK ==
  /\ pc \in [Sessions -> {"init_titan", "init_cohere", "main"} \cup StageSet \cup Terminal]
  /\ issued \in 0..MaxRequests
  /\ \A s \in Sessions : request_id[s] \in 0..issued /\ done[s] \subseteq StageSet
  /\ outcome \in [1..MaxRequests -> {"none"} \cup (Terminal \ {"noop"})]

====
